---- MODULE Spec2Model ----
(***************************************************************************)
(* falcon_auth0.Auth0Middleware: the per-request token authentication      *)
(* pipeline (process_request and its helpers) and the JWKS held on the     *)
(* middleware instance, shared by the threads that serve requests.         *)
(***************************************************************************)
EXTENDS Integers, Sequences, FiniteSets, TLC

VARIABLES
    jwks,       \* self.__jwks: the parsed JWKS document, or None
    digest,     \* self.__digest: set once by the constructor
    pc,         \* per serving thread: where it is inside process_request
    returned    \* the process_request call that ended in the last step, or None

vars == <<jwks, digest, pc, returned>>

---------------------------------------------------------------------------
(* Bounds of the model.                                                    *)

NThreads == 2       \* threads serving requests on one middleware instance
MaxKeys == 2        \* longest key list the JWKS endpoint serves
Now == 10           \* the verifier's clock when a token is decoded

Threads == 1..NThreads

---------------------------------------------------------------------------
(* Python values.                                                          *)

None == [type |-> "NoneType"]   \* None where the other values are objects
NoneStr == "None"               \* None where the other values are str
EmptyDict == <<>>               \* {}

NoError == [type |-> "none"]
Exc(name) == [type |-> name]    \* an exception that is not an HTTPError

HTTP_401 == "401 Unauthorized"
HTTP_799 == "799 End of the World"
default_human_title == "Leonard Bernstein"

\* dict.get(k) with the default None, dict.pop(k) and dict.update({k: v}).
DictGet(d, k) == IF k \in DOMAIN d THEN d[k] ELSE NoneStr
DictHas(d, k) == k \in DOMAIN d
DictDel(d, k) == [x \in (DOMAIN d) \ {k} |-> d[x]]
DictUpdate(d, k, v) == [x \in (DOMAIN d) \cup {k} |-> IF x = k THEN v ELSE d[x]]

\* bool(d) of a dict: it is not empty.
Truthy(d) == DOMAIN d # {}

\* str.lower(), on a string held as its sequence of characters.
LowerChar(c) ==
    CASE c = "A" -> "a" [] c = "B" -> "b" [] c = "C" -> "c" [] c = "E" -> "e"
      [] c = "I" -> "i" [] c = "R" -> "r" [] c = "S" -> "s" [] OTHER -> c
Lower(s) == [chars |-> [i \in DOMAIN s.chars |-> LowerChar(s.chars[i])]]

\* str.split(): the header value is held as its pieces, a run of whitespace
\* (WS) or a field; split() keeps the fields.
Str(pieces) == [str |-> pieces]
WS == [ws |-> " "]
IsField(p) == p # WS
Split(s) == SelectSeq(s.str, IsField)

---------------------------------------------------------------------------
(* Configuration handed to the constructor (a flat auth_config, no         *)
(* jwt_options, no claims_config).                                         *)

Algorithms == {"RS256"}             \* .get('alg', ['RS256'])
Audience == "api-y"                 \* .get('audience')
Domain == "tenant.auth0.com"        \* .get('domain'), the issuer
AccessTokenParam == "access_token"  \* .get('access_token', 'access_token')
Leeway == 0                         \* jwt_options is None: leeway 0

---------------------------------------------------------------------------
(* The JWKS endpoint.                                                      *)

Jwk(kid, n) ==
    [alg |-> "RS256", kty |-> "RSA", use |-> "sig", kid |-> kid, n |-> n, e |-> "AQAB"]

JwkKeys == {Jwk("k1", "n1"), Jwk("k2", "n2")}

KeyLists ==
    {ks \in UNION {[1..n -> JwkKeys] : n \in 0..MaxKeys} :
        \A i, j \in DOMAIN ks : ks[i].kid = ks[j].kid => i = j}

\* The JSON documents the endpoint serves: an object with a key list, an
\* object without one, or null. loads() turns null into None, which is how
\* an instance comes to hold no JWKS: an unreachable endpoint makes the
\* constructor raise instead.
JsonDocs ==
    {[keys |-> ks] : ks \in KeyLists} \cup {[error |-> "not_found"]} \cup {None}

\* What one urlopen(jwks_uri).read() meets.
Responses ==
    {[kind |-> "unreachable"], [kind |-> "unparsable"]}
        \cup {[kind |-> "json", value |-> d] : d \in JsonDocs}

---------------------------------------------------------------------------
(* Requests.                                                               *)

\* A JWT: its header, its payload and the private key that signed it,
\* named by the modulus of the matching public key. wf: it parses as a JWT.
Jwt(c) ==
    [wf |-> c.wf,
     header |-> [alg |-> c.alg, kid |-> c.kid],
     payload |-> IF c.at_hash = NoneStr
                 THEN [exp |-> c.exp, aud |-> c.aud, iss |-> c.iss, sub |-> "user"]
                 ELSE [exp |-> c.exp, aud |-> c.aud, iss |-> c.iss, sub |-> "user",
                       at_hash |-> c.at_hash],
     sig |-> c.sig]

Chars(s) ==
    [chars |-> CASE s = "Bearer" -> <<"B", "e", "a", "r", "e", "r">>
                 [] s = "bearer" -> <<"b", "e", "a", "r", "e", "r">>
                 [] s = "BEARER" -> <<"B", "E", "A", "R", "E", "R">>
                 [] s = "Basic" -> <<"B", "a", "s", "i", "c">>]

AuthorizationHeader(c) ==
    LET S == Chars(c.scheme)
        T == Jwt(c)
    IN CASE c.shape = "pair" -> Str(<<S, WS, T>>)
         [] c.shape = "none" -> None
         [] c.shape = "empty" -> Str(<<>>)
         [] c.shape = "blank" -> Str(<<WS>>)
         [] c.shape = "one" -> Str(<<S>>)
         [] c.shape = "three" -> Str(<<S, WS, T, WS, S>>)

Request(c) ==
    [authorization |-> AuthorizationHeader(c),
     x_auth_token |-> c.xauth,
     method |-> c.method,
     params |-> IF c.param = NoneStr THEN ("page" :> "1")
                ELSE ("page" :> "1") @@ (AccessTokenParam :> c.param),
     context |-> IF c.ctxtok = NoneStr THEN ("trace" :> "t")
                 ELSE ("trace" :> "t") @@ (AccessTokenParam :> c.ctxtok)]

\* A GET with 'Bearer <token>', the token signed by the key k1, in date,
\* for the configured audience and issuer, and no secondary access token.
BaseChoice ==
    [shape |-> "pair", scheme |-> "Bearer", wf |-> TRUE, kid |-> "k1", sig |-> "n1",
     alg |-> "RS256", exp |-> Now + 1, aud |-> Audience, iss |-> Domain,
     at_hash |-> NoneStr, method |-> "GET", xauth |-> NoneStr, param |-> NoneStr,
     ctxtok |-> NoneStr]

Alternatives ==
    {<<"shape", "none">>, <<"shape", "empty">>, <<"shape", "blank">>,
     <<"shape", "one">>, <<"shape", "three">>,
     <<"scheme", "bearer">>, <<"scheme", "BEARER">>, <<"scheme", "Basic">>,
     <<"wf", FALSE>>,
     <<"kid", "k2">>, <<"kid", "k9">>,
     <<"sig", "n2">>,
     <<"alg", "HS256">>,
     <<"exp", Now - Leeway - 1>>, <<"exp", Now - Leeway>>,
     <<"aud", "api-x">>,
     <<"iss", "evil.example.com">>,
     <<"at_hash", "hash-of-at1">>,
     <<"method", "HEAD">>, <<"method", "POST">>,
     <<"xauth", "at1">>,
     <<"param", "at2">>,
     <<"ctxtok", "at1">>}

Vary(cs) == {[c EXCEPT ![a[1]] = a[2]] : c \in cs, a \in Alternatives}

\* The choice still carries a well-formed token under a bearer scheme.
CarriesBearerToken(c) == c.shape = "pair" /\ c.scheme # "Basic" /\ c.wf

\* The requests served: the base request with one thing changed, or with two
\* when it still carries a bearer token (nothing else of it is read otherwise).
Choices ==
    {BaseChoice} \cup Vary({BaseChoice})
        \cup {c \in Vary(Vary({BaseChoice})) : CarriesBearerToken(c)}

Requests == {Request(c) : c \in Choices}

---------------------------------------------------------------------------
(* The error factory and the jose library, as the middleware uses them.    *)

\* http_error_factory(status, title, ...): the HTTPError it returns. Called
\* with no argument it takes the defaults of its signature.
http_error_factory(status, title) == [type |-> "HTTPError", status |-> status, title |-> title]
http_error_factory_default == http_error_factory(HTTP_799, default_human_title)

\* jwt.get_unverified_header(token): the header, or JWTError.
get_unverified_header(token) ==
    IF token.wf THEN [raised |-> NoError, header |-> token.header]
    ELSE [raised |-> Exc("JWTError"), header |-> EmptyDict]

\* The at_hash the library computes from an access token.
calculate_at_hash(access_token) ==
    CASE access_token = "at1" -> "hash-of-at1"
      [] access_token = "at2" -> "hash-of-at2"
      [] OTHER -> "hash-of-nothing"

\* jwt.decode(token, key, algorithms, options=None, audience, issuer,
\* access_token): the signature first, then exp, aud, iss and at_hash in the
\* library's order. The claims, or the exception raised.
jwt_decode(token, key, algorithms, audience, issuer, access_token) ==
    LET claims == token.payload
        fail(e) == [raised |-> Exc(e), claims |-> EmptyDict]
    IN IF token.header.alg \notin algorithms THEN fail("JWTError")
       ELSE IF token.sig # key.n THEN fail("JWTError")
       ELSE IF claims.exp < Now - Leeway THEN fail("ExpiredSignatureError")
       ELSE IF claims.aud # audience THEN fail("JWTClaimsError")
       ELSE IF issuer # NoneStr /\ claims.iss # issuer THEN fail("JWTClaimsError")
       ELSE IF DictHas(claims, "at_hash") /\ access_token = NoneStr
            THEN fail("JWTClaimsError")
       ELSE IF DictHas(claims, "at_hash") /\ claims.at_hash # calculate_at_hash(access_token)
            THEN fail("JWTClaimsError")
       ELSE [raised |-> NoError, claims |-> claims]

---------------------------------------------------------------------------
(* Auth0Middleware.                                                        *)

\* __create_jwks: urlopen(...).read(), then loads(...). urlopen raises when
\* the endpoint cannot be reached, loads when the body is not JSON.
create_jwks(resp) ==
    CASE resp.kind = "unreachable" -> [raised |-> Exc("URLError"), value |-> None]
      [] resp.kind = "unparsable" -> [raised |-> Exc("JSONDecodeError"), value |-> None]
      [] resp.kind = "json" -> [raised |-> NoError, value |-> resp.value]

\* A variant that takes a header without any field for a missing header.
get_token_auth_header_lenient(req) ==
    LET auth_token == req.authorization
    IN IF auth_token = None \/ Split(auth_token) = <<>>
       THEN [raised |-> NoError, bearer |-> None, token |-> None]
       ELSE LET fields == Split(auth_token)
            IN IF Len(fields) # 2
               THEN [raised |-> http_error_factory(HTTP_401,
                                    "Improper 'Authorization' Header Formatting"),
                     bearer |-> None, token |-> None]
               ELSE [raised |-> NoError, bearer |-> fields[1], token |-> fields[2]]

\* __get_token_auth_header: (_bearer, _token), (None, None) when there is
\* no header (AttributeError), an HTTPError when split() does not give two
\* fields (ValueError).
get_token_auth_header(req) ==
    LET auth_token == req.authorization
    IN IF auth_token = None
       THEN [raised |-> NoError, bearer |-> None, token |-> None]
       ELSE LET fields == Split(auth_token)
            IN IF Len(fields) # 2
               THEN [raised |-> http_error_factory(HTTP_401,
                                    "Improper 'Authorization' Header Formatting"),
                     bearer |-> None, token |-> None]
               ELSE [raised |-> NoError, bearer |-> fields[1], token |-> fields[2]]

\* A variant that only ever peeks (d.get), whatever the digest flag.
take_access_token_peek(d, dig) ==
    [raised |-> NoError, value |-> DictGet(d, AccessTokenParam), dict |-> d]

\* d.pop(name) when digesting, d.get(name) otherwise.
take_access_token(d, dig) ==
    IF dig
    THEN IF DictHas(d, AccessTokenParam)
         THEN [raised |-> NoError, value |-> d[AccessTokenParam],
               dict |-> DictDel(d, AccessTokenParam)]
         ELSE [raised |-> Exc("KeyError"), value |-> NoneStr, dict |-> d]
    ELSE [raised |-> NoError, value |-> DictGet(d, AccessTokenParam), dict |-> d]

\* __get_access_token, on the request's present params and context: the
\* X-Auth-Token header, else req.params for HEAD and GET, else req.context.
get_access_token(req, params, context, dig) ==
    IF req.x_auth_token # NoneStr
    THEN [raised |-> NoError, value |-> req.x_auth_token,
          params |-> params, context |-> context]
    ELSE IF req.method \in {"HEAD", "GET"}
    THEN LET r == take_access_token(params, dig)
         IN [raised |-> r.raised, value |-> r.value, params |-> r.dict, context |-> context]
    ELSE LET r == take_access_token(context, dig)
         IN [raised |-> r.raised, value |-> r.value, params |-> params, context |-> r.dict]

\* __process_claims: prints, and returns the claims.
process_claims(claims) == claims

\* The except clauses around jwt.decode.
translate(e) ==
    CASE e.type = "ExpiredSignatureError" -> http_error_factory(HTTP_401, "Expired Token")
      [] e.type = "JWTClaimsError" -> http_error_factory(HTTP_401, "Invalid Claims")
      [] OTHER -> http_error_factory_default

\* A variant that takes every key of the JWKS, whatever its kid.
rsa_key_after_any_kid(rsa_key, key, unverified_header) ==
    [kty |-> key.kty, kid |-> key.kid, use |-> key.use, n |-> key.n, e |-> key.e]

\* The key the loop holds after looking at the JWKS key `key`.
rsa_key_after(rsa_key, key, unverified_header) ==
    IF key.kid = unverified_header.kid
    THEN [kty |-> key.kty, kid |-> key.kid, use |-> key.use, n |-> key.n, e |-> key.e]
    ELSE rsa_key

\* The call's state as the loop starts.
Entered(req) ==
    [req |-> req, raised |-> NoError, context |-> req.context, params |-> req.params,
     rsa_key |-> EmptyDict, decodes |-> 0, extracts |-> 0, handed |-> <<>>]

\* The loop over self.__jwks.get('keys', []), from its i-th key on: each
\* round sets _rsa_key on a kid match and then, whenever _rsa_key is set,
\* extracts the access token, decodes the token and attaches the claims.
RECURSIVE scan_keys(_, _, _, _, _, _)
scan_keys(keys, i, token, unverified_header, dig, st) ==
    IF i > Len(keys) THEN st
    ELSE LET rsa == rsa_key_after(st.rsa_key, keys[i], unverified_header)
         IN IF ~Truthy(rsa)
            THEN scan_keys(keys, i + 1, token, unverified_header, dig, st)
            ELSE LET at == get_access_token(st.req, st.params, st.context, dig)
                     s1 == [st EXCEPT !.rsa_key = rsa, !.extracts = @ + 1,
                                      !.params = at.params, !.context = at.context]
                 IN IF at.raised # NoError
                    THEN [s1 EXCEPT !.raised = translate(at.raised)]
                    ELSE LET d == jwt_decode(token, rsa, Algorithms, Audience, Domain, at.value)
                             s2 == [s1 EXCEPT !.decodes = @ + 1,
                                              !.handed = Append(@, at.value)]
                         IN IF d.raised # NoError
                            THEN [s2 EXCEPT !.raised = translate(d.raised)]
                            ELSE scan_keys(keys, i + 1, token, unverified_header, dig,
                                     [s2 EXCEPT !.context =
                                         DictUpdate(@, "auth", process_claims(d.claims))])

\* self.__jwks.get('keys', [])
jwks_keys(doc) == IF DictHas(doc, "keys") THEN doc.keys ELSE <<>>

\* process_request from the header on (the lines after the lazy fetch), with
\* the JWKS it finds on the instance.
handle(req, doc, dig) ==
    LET h == get_token_auth_header(req)
        st == Entered(req)
    IN IF h.raised # NoError THEN [st EXCEPT !.raised = h.raised]
       ELSE IF h.bearer = None
       THEN [st EXCEPT !.context = DictUpdate(@, "auth", None)]
       ELSE IF Lower(h.bearer) = Chars("bearer")
       THEN LET uh == get_unverified_header(h.token)
            IN IF uh.raised # NoError THEN [st EXCEPT !.raised = uh.raised]
               ELSE IF doc = None THEN [st EXCEPT !.raised = Exc("AttributeError")]
               ELSE scan_keys(jwks_keys(doc), 1, h.token, uh.header, dig, st)
       ELSE [st EXCEPT !.raised = http_error_factory(HTTP_401,
                                      "Invalid 'Authorization' Header")]

---------------------------------------------------------------------------
(* The instance and its serving threads.                                   *)

\* __init__: the constructor fetches the JWKS; an instance exists when that
\* did not raise.
Init ==
    /\ \E resp \in Responses :
          /\ create_jwks(resp).raised = NoError
          /\ jwks = create_jwks(resp).value
    /\ digest \in BOOLEAN
    /\ pc = [t \in Threads |-> "idle"]
    /\ returned = None

\* process_request is entered: `if self.__jwks is None`.
Enter(t) ==
    /\ pc[t] = "idle"
    /\ pc' = [pc EXCEPT ![t] = IF jwks = None THEN "fetch" ELSE "parse"]
    /\ returned' = None
    /\ UNCHANGED <<jwks, digest>>

\* self.__jwks = self.__create_jwks() gets its answer and assigns it.
FetchDone(t) ==
    /\ pc[t] = "fetch"
    /\ \E resp \in Responses :
          /\ create_jwks(resp).raised = NoError
          /\ jwks' = create_jwks(resp).value
    /\ pc' = [pc EXCEPT ![t] = "parse"]
    /\ returned' = None
    /\ UNCHANGED digest

\* A variant that caches the failure: the raising fetch leaves an error
\* document on the instance.
FetchRaise_negative_caching(t) ==
    /\ pc[t] = "fetch"
    /\ \E resp \in Responses, req \in Requests :
          /\ create_jwks(resp).raised # NoError
          /\ returned' = [Entered(req) EXCEPT !.raised = create_jwks(resp).raised]
    /\ jwks' = [error |-> "unavailable"]
    /\ pc' = [pc EXCEPT ![t] = "idle"]
    /\ UNCHANGED digest

\* __create_jwks raises: nothing catches it, and the call of process_request
\* ends there, the request untouched.
FetchRaise(t) ==
    /\ pc[t] = "fetch"
    /\ \E resp \in Responses, req \in Requests :
          /\ create_jwks(resp).raised # NoError
          /\ returned' = [Entered(req) EXCEPT !.raised = create_jwks(resp).raised]
    /\ pc' = [pc EXCEPT ![t] = "idle"]
    /\ UNCHANGED <<jwks, digest>>

\* The rest of process_request; the request is first read here.
Handle(t) ==
    /\ pc[t] = "parse"
    /\ \E req \in Requests : returned' = handle(req, jwks, digest)
    /\ pc' = [pc EXCEPT ![t] = "idle"]
    /\ UNCHANGED <<jwks, digest>>

Next == \E t \in Threads : Enter(t) \/ FetchDone(t) \/ FetchRaise(t) \/ Handle(t)

Spec == Init /\ [][Next]_vars

---------------------------------------------------------------------------
(* What the claims speak of.                                               *)

Called == returned # None
Raised == Called /\ returned.raised # NoError
Attached == Called /\ returned.raised = NoError /\ DictHas(returned.context, "auth")

MalformedHeader == http_error_factory(HTTP_401, "Improper 'Authorization' Header Formatting")
InvalidScheme == http_error_factory(HTTP_401, "Invalid 'Authorization' Header")
ExpiredSignature == http_error_factory(HTTP_401, "Expired Token")
InvalidClaims == http_error_factory(HTTP_401, "Invalid Claims")

HasHeader(req) == req.authorization # None
TwoFields(req) == HasHeader(req) /\ Len(Split(req.authorization)) = 2
Scheme(req) == Split(req.authorization)[1]
Token(req) == Split(req.authorization)[2]
IsBearer(req) == TwoFields(req) /\ Lower(Scheme(req)) = Chars("bearer")

\* The request carries 'Bearer <token>' with a token that parses.
BearerRequest(req) == IsBearer(req) /\ Token(req).wf

\* The keys of the document `doc` with the kid the token declares.
Matching(doc, token) ==
    {i \in DOMAIN jwks_keys(doc) : jwks_keys(doc)[i].kid = token.header.kid}

\* The token is signed by the key of `doc` that has its kid, with an
\* algorithm of the allow-list.
SignedByResolvedKey(doc, token) ==
    /\ token.header.alg \in Algorithms
    /\ \E i \in Matching(doc, token) : jwks_keys(doc)[i].n = token.sig

Expired(token) == token.payload.exp < Now - Leeway
ClaimsMatchConfig(token) ==
    /\ token.payload.aud = Audience
    /\ token.payload.iss = Domain
    /\ ~DictHas(token.payload, "at_hash")

FetchesInFlight == {t \in Threads : pc[t] = "fetch"}

\* The call ended at the lazy fetch, before the request was read.
FetchEscaped == Called /\ returned.raised.type \in {"URLError", "JSONDecodeError"}

\* No pop of a missing access token can happen in the call.
NoMissingPop == ~digest \/ (Called /\ returned.req.x_auth_token # NoneStr)

\* The request carries no secondary access token anywhere.
NoSecondaryToken(req) ==
    /\ req.x_auth_token = NoneStr
    /\ ~DictHas(req.params, AccessTokenParam)
    /\ ~DictHas(req.context, AccessTokenParam)

---------------------------------------------------------------------------
(* The claims.                                                             *)

\* C1: a bearer request whose token declares a kid that no key of the held
\* JWKS has ends with a structured error raised and no 'auth' entry.
C1_UnknownKidRejected ==
    (Called /\ jwks # None /\ BearerRequest(returned.req)
        /\ Matching(jwks, Token(returned.req)) = {})
    => (returned.raised.type = "HTTPError" /\ ~DictHas(returned.context, "auth"))

\* C2: whenever process_request raises, the request context is what it was
\* when process_request was entered.
C2_RejectedLeavesContext ==
    Raised => returned.context = returned.req.context

\* C3: a request with no Authorization header returns without an error and
\* with 'auth' = None in its context, whatever the cache and the endpoint.
C3_NoHeaderAttachesNull ==
    (Called /\ ~HasHeader(returned.req))
    => (/\ returned.raised = NoError
        /\ DictHas(returned.context, "auth")
        /\ returned.context["auth"] = None)

\* C4: a request whose Authorization header does not split into exactly two
\* fields ends with the 'Improper Authorization Header Formatting' error,
\* without any key resolved or token verified.
C4_MalformedHeaderRejected ==
    (Called /\ HasHeader(returned.req) /\ ~TwoFields(returned.req))
    => (/\ returned.raised = MalformedHeader
        /\ returned.decodes = 0
        /\ ~Truthy(returned.rsa_key))

\* C5: a two-field header whose first field is not 'bearer' in any case ends
\* with the invalid-scheme error and no verification; a first field that is
\* 'bearer' in any case never does.
C5_SchemeDecidesRejection ==
    (Called /\ TwoFields(returned.req))
    => IF IsBearer(returned.req)
       THEN returned.raised # InvalidScheme
       ELSE returned.raised = InvalidScheme /\ returned.decodes = 0

\* C6: a bearer request whose token is signed by its key of the JWKS and has
\* expired ends with the 'Expired Token' error, for every digest setting and
\* with or without a secondary access token; a token in date never does.
C6_ExpiredRejected ==
    (Called /\ jwks # None /\ BearerRequest(returned.req)
        /\ SignedByResolvedKey(jwks, Token(returned.req)))
    => (Expired(Token(returned.req)) <=> returned.raised = ExpiredSignature)

\* C7: a bearer request whose token is signed by its key of the JWKS, is in
\* date, and names another audience or issuer than the configured one ends
\* with the 'Invalid Claims' error and nothing attached.
C7_ClaimMismatchRejected ==
    (Called /\ jwks # None /\ BearerRequest(returned.req)
        /\ SignedByResolvedKey(jwks, Token(returned.req))
        /\ ~Expired(Token(returned.req))
        /\ \/ Token(returned.req).payload.aud # Audience
           \/ Token(returned.req).payload.iss # Domain)
    => (returned.raised = InvalidClaims /\ ~DictHas(returned.context, "auth"))

\* C8: a bearer request whose token is signed by its key of the JWKS, at any
\* place of the key list, in date and for the configured audience and
\* issuer, returns without error with 'auth' equal to the token's claims.
C8_ValidTokenAttachesClaims ==
    (Called /\ jwks # None /\ BearerRequest(returned.req)
        /\ SignedByResolvedKey(jwks, Token(returned.req))
        /\ ~Expired(Token(returned.req))
        /\ ClaimsMatchConfig(Token(returned.req)))
    => (/\ returned.raised = NoError
        /\ DictHas(returned.context, "auth")
        /\ returned.context["auth"] = Token(returned.req).payload)

\* C9: with requests served concurrently on an empty cache, no two fetches
\* of the JWKS endpoint are in flight at the same time.
C9_SingleFetchInFlight == Cardinality(FetchesInFlight) <= 1

\* C10: once the cache is populated, request processing never replaces or
\* changes the held key set.
C10_PopulatedCacheKept == [][jwks # None => jwks' = jwks]_vars

\* C11: every HTTPError that process_request raises carries the status
\* 401 Unauthorized, the generic error of the catch-all clause included.
C11_EveryErrorIs401 ==
    (Called /\ returned.raised.type = "HTTPError")
    => returned.raised.status = HTTP_401

\* C12: a bearer request without X-Auth-Token header and without an access
\* token in its params or context, its token valid: for both digest settings
\* and every method the call returns without error, the claims attached.
C12_AbsentAccessTokenPasses ==
    (Called /\ jwks # None /\ BearerRequest(returned.req)
        /\ NoSecondaryToken(returned.req)
        /\ SignedByResolvedKey(jwks, Token(returned.req))
        /\ ~Expired(Token(returned.req))
        /\ ClaimsMatchConfig(Token(returned.req)))
    => (/\ returned.raised = NoError
        /\ returned.handed # <<>>
        /\ \A i \in DOMAIN returned.handed : returned.handed[i] = NoneStr
        /\ Attached
        /\ returned.context["auth"] = Token(returned.req).payload)

\* The call extracted the access token from req.params: no X-Auth-Token
\* header, method HEAD or GET, the parameter present, a key resolved.
ReadFromParams ==
    /\ Called
    /\ returned.extracts >= 1
    /\ returned.req.x_auth_token = NoneStr
    /\ returned.req.method \in {"HEAD", "GET"}
    /\ DictHas(returned.req.params, AccessTokenParam)

\* C13: when the access token is read from req.params, digesting leaves the
\* params without the parameter, not digesting leaves the params exactly as
\* they were, and every value handed to jwt.decode is the one the request
\* carried.
C13_DigestConsumesPeekKeeps ==
    ReadFromParams
    => (/\ digest => ~DictHas(returned.params, AccessTokenParam)
        /\ ~digest => returned.params = returned.req.params
        /\ returned.handed # <<>>
        /\ \A i \in DOMAIN returned.handed :
              returned.handed[i] = returned.req.params[AccessTokenParam])

\* A digesting call that read the parameter and attached the claims.
C13_Witness ==
    ReadFromParams /\ digest /\ Attached /\ returned.raised = NoError

\* A call that peeked at the parameter and attached the claims.
C13_PeekReached ==
    ReadFromParams /\ ~digest /\ Attached /\ returned.raised = NoError

\* C14: a bearer request whose lazy fetch fails ends with a structured
\* error, never with the fetch's own exception.
C14_FetchFailureTranslated ==
    [][\A t \in Threads :
          (pc[t] = "fetch" /\ pc'[t] = "idle" /\ BearerRequest(returned'.req))
          => returned'.raised.type = "HTTPError"]_vars

\* C15: one call verifies the token at most once and extracts the secondary
\* access token at most once, whatever the key list.
C15_OneVerificationPerCall ==
    Called => (returned.decodes <= 1 /\ returned.extracts <= 1)

\* C16: a fetch that fails stores nothing on the instance; a call that
\* finds the cache empty goes to fetch again; a fetch that succeeds stores
\* the document the endpoint served and the call goes on to the header.
C16_FailedFetchStoresNothing ==
    [][\A t \in Threads :
          /\ (pc[t] = "fetch" /\ pc'[t] = "idle") => jwks' = jwks
          /\ (pc[t] = "idle" /\ pc'[t] # "idle" /\ jwks = None) => pc'[t] = "fetch"
          /\ (pc[t] = "fetch" /\ pc'[t] = "parse")
             => \E resp \in Responses : resp.kind = "json" /\ jwks' = resp.value]_vars

\* A fetch has just failed and the cache is still empty, every thread idle.
C16_Witness ==
    /\ FetchEscaped
    /\ jwks = None
    /\ \A t \in Threads : pc[t] = "idle"

\* The serving threads keep taking requests, and a step that is started ends.
FairSpec ==
    /\ Spec
    /\ \A t \in Threads :
          /\ WF_vars(Enter(t))
          /\ WF_vars(FetchDone(t) \/ FetchRaise(t))
          /\ WF_vars(Handle(t))

\* C17: the cached key set expires: while requests keep coming, a key set
\* held on the instance is followed by a new fetch of the JWKS endpoint.
C17_KeySetRefetched ==
    (jwks # None) ~> (FetchesInFlight # {})

\* C18: a bearer request whose token has a key of its kid in the JWKS but is
\* not signed by it, or names an algorithm outside the allow-list, ends with
\* an error of its own kind, not the generic one, nothing attached.
C18_BadSignatureHasOwnError ==
    (Called /\ NoMissingPop /\ jwks # None /\ BearerRequest(returned.req)
        /\ Matching(jwks, Token(returned.req)) # {}
        /\ ~SignedByResolvedKey(jwks, Token(returned.req)))
    => (/\ returned.raised.type = "HTTPError"
        /\ returned.raised # http_error_factory_default
        /\ ~DictHas(returned.context, "auth"))

\* The Authorization header is present and holds no field at all.
EmptyHeader(req) ==
    /\ HasHeader(req)
    /\ Split(req.authorization) = <<>>

\* C19 as stated: a present but empty Authorization header is taken for a
\* missing one: no error, and 'auth' = None in the context.
C19_EmptyHeaderIsAbsent ==
    (Called /\ EmptyHeader(returned.req))
    => (/\ returned.raised = NoError
        /\ DictHas(returned.context, "auth")
        /\ returned.context["auth"] = None)

\* C19, amended: a present but empty Authorization header is not taken for
\* a missing one. A call that reaches the header raises 'Improper
\* Authorization Header Formatting'; no call with such a header returns
\* normally, and none records 'auth' in the context.
C19_EmptyHeaderRejected ==
    (Called /\ EmptyHeader(returned.req))
    => (/\ (returned.raised = MalformedHeader \/ FetchEscaped)
        /\ returned.context = returned.req.context)

\* A call with an empty header that ended in the formatting error.
C19_Witness ==
    /\ Called
    /\ EmptyHeader(returned.req)
    /\ returned.raised = MalformedHeader

\* C20: the secondary access token comes from the request's params for every
\* method, and nothing is read or removed from the context bag.
C20_AccessTokenFromParams ==
    (Called /\ returned.req.x_auth_token = NoneStr)
    => (/\ \A i \in DOMAIN returned.handed :
              returned.handed[i] = DictGet(returned.req.params, AccessTokenParam)
        /\ \A k \in DOMAIN returned.req.context :
              DictHas(returned.context, k) /\ returned.context[k] = returned.req.context[k])

\* The context the call leaves holds an 'auth' entry other than None.
HoldsClaims ==
    /\ Called
    /\ DictHas(returned.context, "auth")
    /\ returned.context["auth"] # None

\* C21: a context holds a non-null 'auth' only if, in that call, jwt.decode
\* succeeded on the request's own token with a key of the JWKS whose kid is
\* the kid the token's header declares, and the entry is that token's claims.
C21_ClaimsOnlyFromVerifiedToken ==
    HoldsClaims
    => (/\ jwks # None
        /\ BearerRequest(returned.req)
        /\ returned.decodes >= 1
        /\ Truthy(returned.rsa_key)
        /\ returned.rsa_key.kid = Token(returned.req).header.kid
        /\ \E i \in Matching(jwks, Token(returned.req)) :
              /\ jwks_keys(jwks)[i].n = returned.rsa_key.n
              /\ jwks_keys(jwks)[i].kid = returned.rsa_key.kid
        /\ \E j \in DOMAIN returned.handed :
              LET d == jwt_decode(Token(returned.req), returned.rsa_key, Algorithms,
                                  Audience, Domain, returned.handed[j])
              IN d.raised = NoError /\ d.claims = returned.context["auth"]
        /\ returned.context["auth"] = Token(returned.req).payload)

\* A call that attached claims while the JWKS holds keys of two kids, the
\* token's kid being the second key's.
C21_Witness ==
    /\ HoldsClaims
    /\ Len(jwks_keys(jwks)) = 2
    /\ Token(returned.req).header.kid = jwks_keys(jwks)[2].kid

---------------------------------------------------------------------------
(* What holds of the code next to the claims above: each names the paths   *)
(* that break its claim, and holds of all the others.                      *)

\* A call that gets past the lazy fetch treats the header as C3, C4 and C5
\* say.
HeaderHandledPastFetch ==
    ~FetchEscaped
    => (C3_NoHeaderAttachesNull /\ C4_MalformedHeaderRejected /\ C5_SchemeDecidesRejection)

\* A bearer token whose kid no key has: the call returns, nothing raised,
\* nothing attached.
UnknownKidPassesSilently ==
    (Called /\ ~FetchEscaped /\ jwks # None /\ BearerRequest(returned.req)
        /\ Matching(jwks, Token(returned.req)) = {})
    => (returned.raised = NoError /\ returned.context = returned.req.context)

\* Without a digesting pop the verification outcomes are those of C2, C6, C7
\* and C8.
VerifiedWithoutPop ==
    (NoMissingPop /\ ~FetchEscaped)
    => (/\ C2_RejectedLeavesContext
        /\ C6_ExpiredRejected
        /\ C7_ClaimMismatchRejected
        /\ C8_ValidTokenAttachesClaims)

\* With no fetch in flight a populated cache is kept and no fetch starts.
PopulatedCacheKeptWhenQuiet ==
    [][(jwks # None /\ FetchesInFlight = {})
        => (jwks' = jwks /\ FetchesInFlight' = {})]_vars

====
